---- MODULE Spec2Model ----
(***************************************************************************)
(* A model of the backend worker of urban-online-workflow                  *)
(* (src/backend-worker/worker.py): the do_work polling loop with its job   *)
(* dispatch, the raster operations' working directories, and the grid      *)
(* alignment arithmetic of _create_new_lulc.                               *)
(***************************************************************************)
EXTENDS Integers, Sequences, FiniteSets, TLC

(* ------------------------------ bounds --------------------------------- *)
\* number of jobs the queue hands out in one run
MaxJobs == 2
\* parcel coordinates are drawn from -MaxCoord .. MaxCoord
MaxCoord == 3
\* the wallpaper pattern has at most MaxPattern rows and columns
MaxPattern == 3
\* a window's absolute offset is at most MaxOff on each axis
MaxOff == 4
\* a window has at most MaxWin rows and columns
MaxWin == 3
\* the small rasters are one row of MaxWidth pixels
MaxWidth == 3

(* ------------------------- program constants --------------------------- *)
STATUS_SUCCESS == "success"
STATUS_FAILED == "failed"
JOBTYPE_FILL == "lulc_fill"
JOBTYPE_WALLPAPER == "wallpaper"
JOBTYPE_CROP == "lulc_crop"
JOBTYPE_PARCEL_STATS == "stats_under_parcel"
JOBTYPE_PATTERN_THUMBNAIL == "pattern_thumbnail"
JOBTYPE_INVEST == "invest"

ENDPOINTS ==
    [jt \in {JOBTYPE_FILL, JOBTYPE_WALLPAPER, JOBTYPE_CROP,
             JOBTYPE_PARCEL_STATS, JOBTYPE_PATTERN_THUMBNAIL, JOBTYPE_INVEST} |->
        CASE jt \in {JOBTYPE_FILL, JOBTYPE_WALLPAPER, JOBTYPE_CROP} -> "scenario"
          [] jt = JOBTYPE_PARCEL_STATS -> "parcel_stats"
          [] jt = JOBTYPE_PATTERN_THUMBNAIL -> "pattern"
          [] OTHER -> "invest"]

CARBON == "carbon"
URBAN_COOLING == "urban_cooling_model"
URBAN_NATURE_ACCESS == "urban_nature_access"
INVEST_MODELS == {URBAN_COOLING, CARBON, URBAN_NATURE_ACCESS}

LARGEST_SERVICESHED == 1600

\* the nodata value of the base LULC raster
LULC_NODATA == 0

(* --------------------------- JSON values ------------------------------- *)
\* a JSON string and a JSON object are kept apart by a tag
JStr(s) == [tag |-> "str", str |-> s]
JDict(d) == [tag |-> "dict", dict |-> d]

\* a Python local that no assignment has bound yet
Unbound == [unbound |-> TRUE]
UnboundStr == "<unbound>"

\* d[k] = v on a Python dict
SetKey(d, k, v) == [x \in (DOMAIN d) \cup {k} |-> IF x = k THEN v ELSE d[x]]

(* --------------------------- job envelopes ----------------------------- *)
\* job-type tags the queue may send: the six known ones and a foreign one
JobTypeInputs == (DOMAIN ENDPOINTS) \cup {"bogus"}

\* the key an envelope lacks, if any ("arg": a required entry of job_args)
MissingKeys == {"none", "job_type", "server_attrs", "job_id", "job_args",
                "scenario_id", "arg"}

\* the body of GET /jobsqueue/: null, or a job envelope
NullResponse == [null |-> TRUE]
Envelopes ==
    { [null |-> FALSE, job_type |-> jt, missing |-> m, invest_model |-> im] :
        jt \in JobTypeInputs, m \in MissingKeys,
        im \in {CARBON} } \cup
    { [null |-> FALSE, job_type |-> JOBTYPE_INVEST, missing |-> "none",
       invest_model |-> im] : im \in INVEST_MODELS \cup {"no_such_model"} }

\* top-level keys of the envelope
TopKeys(r) == {"job_type", "server_attrs", "job_args"} \ {r.missing}
\* response_json['server_attrs'] of the n-th job handed out
ServerAttrs(r, n) ==
    [k \in {"job_id", "scenario_id"} \ {r.missing} |->
        IF k = "job_id" THEN n ELSE 1]
\* response_json['job_args']
JobArgs(r) == [complete |-> r.missing # "arg", invest_model |-> r.invest_model]

(* ------------------------------ state ---------------------------------- *)
VARIABLES
    pc,           \* position of do_work
    slept,        \* the last fetch found no work and the worker slept
    fetched,      \* number of jobs fetched so far
    response_json,                             \* locals of do_work
    server_args, job_id, job_type, job_args,
    result_path, status, data,                 \* locals of do_work
    exc,          \* the exception in flight ("none" when there is none)
    raisedAt,     \* the step of the current job that raised ("none" if none)
    posts,        \* the result POSTs made so far, in order
    dirs,         \* working directories that exist: [job, kind]
    files,        \* result rasters on disk: path -> content
    grid, parcel, bbox, aligned, apc,          \* _create_new_lulc's arithmetic
    raster_bb,    \* bounding box of the raster _create_new_lulc wrote
    tile,         \* the wallpaper loop's tiling of one window
    ras,          \* fill_parcel and wallpaper_parcel on a small raster
    cnt,          \* pixelcounts_under_parcel on a small window
    rep           \* _reproject_to_nlud on one parcel

loopVars == <<pc, slept, fetched, response_json, server_args, job_id, job_type, job_args,
              result_path, status, data, exc, raisedAt, posts, dirs, files>>
alignVars == <<grid, parcel, bbox, aligned, apc, raster_bb>>
opVars == <<tile, ras, cnt, rep>>
vars == <<loopVars, alignVars, opVars>>

ScenarioJobTypes == {JOBTYPE_FILL, JOBTYPE_WALLPAPER, JOBTYPE_CROP}
\* result_path = <workspace>/<scenario_id>_<job_type>.tif
ResultPath(sid, jt) == <<sid, jt>>
\* result_path = None
NoPath == <<0, "None">>


(* ------------------------ steps and exceptions ------------------------- *)
\* position of step s in the statement sequence seq
Index(seq, s) == CHOOSE i \in 1..Len(seq) : seq[i] = s
\* step s ran to completion when the first raising step is f ("none": none)
Done(seq, f, s) == f = "none" \/ Index(seq, s) < Index(seq, f)
\* the statements of seq, as a set
Steps(seq) == {seq[i] : i \in 1..Len(seq)}

\* the exception class each raising step raises
ExcKind(step) ==
    CASE step \in {"mkdtemp", "rmtree"} -> "OSError"
      [] step \in {"args", "scenario_id", "model_lookup", "to_vector"} -> "KeyError"
      [] step \in {"invalid_job_type", "raster_info"} -> "ValueError"
      [] step \in {"assert", "pixelcounts"} -> "AssertionError"
      [] step = "loads" -> "ShapelyError"
      [] OTHER -> "RuntimeError"

\* `except Exception` of do_work: every exception class a step raises
CatchesOnlyValueError(kind) == kind = "ValueError"
Catches(kind) == TRUE

(* --------------------------- fill_parcel ------------------------------- *)
FillSteps == <<"loads", "mkdtemp", "to_vector", "create_new_lulc",
               "rasterize", "rmtree">>
FillFailures == Steps(FillSteps) \cup {"none"}

\* fill_parcel of job n failing at f (or not at all), on directories ds and
\* a target raster whose content was old
FillParcel(f, n, ds, old, filled) ==
    LET d == [job |-> n, kind |-> "fill-parcel-"] IN
    [raised |-> f,
     dirs |-> IF Done(FillSteps, f, "mkdtemp") /\ ~Done(FillSteps, f, "rmtree")
              THEN ds \cup {d} ELSE ds,
     content |-> IF Done(FillSteps, f, "rasterize") THEN filled
                 ELSE IF Done(FillSteps, f, "create_new_lulc") THEN "base"
                 ELSE IF f = "create_new_lulc" THEN "partial"
                 ELSE old]

(* ------------------------- wallpaper_parcel ---------------------------- *)
WallpaperSteps == <<"raster_info", "mkdtemp", "fill_parcel", "warp", "assert",
                    "new_raster", "iterblocks", "overviews", "rmtree">>
WallpaperFailures == Steps(WallpaperSteps) \cup {"none"}

\* wallpaper_parcel of job n failing at wf (inside fill_parcel: at ff)
WallpaperParcel(wf, ff, n, ds, old) ==
    LET d == [job |-> n, kind |-> "wallpaper-parcel-"]
        own == IF Done(WallpaperSteps, wf, "mkdtemp")
                  /\ ~Done(WallpaperSteps, wf, "rmtree")
               THEN {d} ELSE {}
        mask == IF Done(WallpaperSteps, wf, "mkdtemp")
                THEN FillParcel(ff, n, ds, "absent", "mask").dirs
                ELSE ds
    IN
    [raised |-> IF wf = "fill_parcel" THEN ff ELSE wf,
     dirs |-> mask \cup own,
     content |-> IF Done(WallpaperSteps, wf, "iterblocks") THEN "wallpapered"
                 ELSE IF wf = "iterblocks" THEN "partial"
                 ELSE IF Done(WallpaperSteps, wf, "new_raster") THEN "nodata"
                 ELSE IF wf = "new_raster" THEN "partial"
                 ELSE old]

(* -------------------------- the except clause -------------------------- *)
\* data after the except clause ran, d being data before it
FailureDataEmpty(d) == [x \in {} |-> JStr(STATUS_FAILED)]
FailureDataStale(d) == d
FailureData(d) == [result |-> JStr(STATUS_FAILED)]

(* ------------------------------- Init ---------------------------------- *)
Paths == {ResultPath(1, jt) : jt \in ScenarioJobTypes}

InitLoop ==
    /\ pc = "poll"
    /\ slept = FALSE
    /\ fetched = 0
    /\ response_json = Unbound
    /\ server_args = Unbound
    /\ job_id = 0
    /\ job_type = UnboundStr
    /\ job_args = Unbound
    /\ result_path = <<0, UnboundStr>>
    /\ status = UnboundStr
    /\ data = Unbound
    /\ exc = "none"
    /\ raisedAt = "none"
    /\ posts = <<>>
    /\ dirs = {}
    /\ files = [p \in Paths |-> "absent"]


(* ------------------------------ do_work -------------------------------- *)
\* `if not response.json()`: there is no work on the queue
NoWorkInverted(r) == ~r.null
NoWork(r) == r.null

\* a step raised inside the try block: the except clause runs if it catches
\* the exception, the finally clause runs in any case
Raise(step) ==
    /\ exc' = ExcKind(step)
    /\ raisedAt' = step
    /\ pc' = IF Catches(ExcKind(step)) THEN "except" ELSE "finally"

\* GET /jobsqueue/, then the envelope is unpacked and the output directories
\* are made; a missing key raises KeyError outside the try block
Fetch ==
    /\ pc = "poll"
    /\ \E r \in Envelopes \cup {NullResponse} :
        /\ r.null \/ fetched < MaxJobs
        /\ fetched' = IF r.null THEN fetched ELSE fetched + 1
        /\ IF NoWork(r)
           THEN /\ slept' = TRUE
                /\ UNCHANGED <<pc, response_json, server_args, job_id,
                               job_type, job_args, exc, raisedAt>>
           ELSE /\ slept' = FALSE
                /\ raisedAt' = "none"
                /\ response_json' = IF r.null THEN response_json ELSE r
                /\ IF r.null \/ "server_attrs" \notin TopKeys(r)
                   THEN /\ pc' = "crashed"
                        /\ exc' = IF r.null THEN "TypeError" ELSE "KeyError"
                        /\ UNCHANGED <<server_args, job_id, job_type, job_args>>
                   ELSE /\ server_args' = ServerAttrs(r, fetched')
                        /\ IF "job_id" \notin DOMAIN server_args'
                           THEN /\ pc' = "crashed" /\ exc' = "KeyError"
                                /\ UNCHANGED <<job_id, job_type, job_args>>
                           ELSE /\ job_id' = server_args'["job_id"]
                                /\ IF "job_type" \notin TopKeys(r)
                                   THEN /\ pc' = "crashed" /\ exc' = "KeyError"
                                        /\ UNCHANGED <<job_type, job_args>>
                                   ELSE /\ job_type' = r.job_type
                                        /\ IF "job_args" \notin TopKeys(r)
                                           THEN /\ pc' = "crashed"
                                                /\ exc' = "KeyError"
                                                /\ UNCHANGED job_args
                                           ELSE /\ job_args' = JobArgs(r)
                                                /\ pc' = "try"
                                                /\ exc' = "none"
    /\ UNCHANGED <<result_path, status, data, posts, dirs, files, alignVars, opVars>>

\* the scenario branch up to the raster operation
StartScenario ==
    /\ pc = "try"
    /\ job_type \in ScenarioJobTypes
    /\ IF "scenario_id" \in DOMAIN server_args
       THEN /\ result_path' = ResultPath(server_args["scenario_id"], job_type)
            /\ pc' = "raster"
            /\ UNCHANGED <<exc, raisedAt>>
       ELSE /\ Raise("scenario_id")
            /\ UNCHANGED result_path
    /\ UNCHANGED <<slept, fetched, response_json, server_args, job_id, job_type, job_args,
                   status, data, posts, dirs, files, alignVars, opVars>>

\* JOBTYPE_CROP: _create_new_lulc writes the cropped base raster
Crop ==
    /\ pc = "raster"
    /\ job_type = JOBTYPE_CROP
    /\ \E f \in {"none", "args", "create_new_lulc"} :
        /\ (f = "args") <=> ~job_args.complete
        /\ IF f = "none"
           THEN /\ files' = [files EXCEPT ![result_path] = "base"]
                /\ pc' = "stats"
                /\ UNCHANGED <<exc, raisedAt>>
           ELSE /\ files' = IF f = "args" THEN files
                            ELSE [files EXCEPT ![result_path] = "partial"]
                /\ Raise(f)
    /\ UNCHANGED <<slept, fetched, response_json, server_args, job_id, job_type, job_args,
                   result_path, status, data, posts, dirs, alignVars, opVars>>

\* JOBTYPE_FILL: fill_parcel
Fill ==
    /\ pc = "raster"
    /\ job_type = JOBTYPE_FILL
    /\ \E f \in FillFailures \cup {"args"} :
        /\ (f = "args") <=> ~job_args.complete
        /\ IF f = "args"
           THEN /\ Raise(f)
                /\ UNCHANGED <<dirs, files>>
           ELSE LET r == FillParcel(f, fetched, dirs, files[result_path],
                                    "filled") IN
                /\ dirs' = r.dirs
                /\ files' = [files EXCEPT ![result_path] = r.content]
                /\ IF r.raised = "none"
                   THEN pc' = "stats" /\ UNCHANGED <<exc, raisedAt>>
                   ELSE Raise(r.raised)
    /\ UNCHANGED <<slept, fetched, response_json, server_args, job_id, job_type, job_args,
                   result_path, status, data, posts, alignVars, opVars>>

\* JOBTYPE_WALLPAPER: a temporary directory, wallpaper_parcel inside it, and
\* its removal, where an OSError is logged and swallowed
Wallpaper ==
    /\ pc = "raster"
    /\ job_type = JOBTYPE_WALLPAPER
    /\ \E f \in {"none", "mkdtemp", "args", "wallpaper_parcel"},
          wf \in WallpaperFailures, ff \in FillFailures,
          rmtreeFails \in BOOLEAN :
        LET d == [job |-> fetched, kind |-> "wallpaper-"] IN
        /\ (f = "args") => ~job_args.complete
        /\ ~job_args.complete => f \in {"mkdtemp", "args"}
        /\ (f = "wallpaper_parcel") <=> (wf # "none")
        /\ (wf = "fill_parcel") <=> (ff # "none")
        /\ rmtreeFails => f = "none"
        /\ CASE f = "mkdtemp" ->
                  /\ Raise(f)
                  /\ UNCHANGED <<dirs, files>>
             [] f = "args" ->
                  /\ Raise(f)
                  /\ dirs' = dirs \cup {d}
                  /\ UNCHANGED files
             [] f = "wallpaper_parcel" ->
                  LET r == WallpaperParcel(wf, ff, fetched, dirs \cup {d},
                                           files[result_path]) IN
                  /\ Raise(r.raised)
                  /\ dirs' = r.dirs
                  /\ files' = [files EXCEPT ![result_path] = r.content]
             [] OTHER ->
                  LET r == WallpaperParcel("none", "none", fetched,
                                           dirs \cup {d}, files[result_path]) IN
                  /\ dirs' = IF rmtreeFails THEN r.dirs ELSE r.dirs \ {d}
                  /\ files' = [files EXCEPT ![result_path] = r.content]
                  /\ pc' = "stats"
                  /\ UNCHANGED <<exc, raisedAt>>
    /\ UNCHANGED <<slept, fetched, response_json, server_args, job_id, job_type, job_args,
                   result_path, status, data, posts, alignVars, opVars>>


\* the result of a scenario job, with pixelcounts_under_parcel run on the
\* source raster instead
ScenarioStatsFromSource ==
    /\ pc = "stats"
    /\ \E f \in {"none", "pixelcounts"} :
        IF f = "none"
        THEN /\ data' = [result |-> JDict(
                     [lulc_path |-> result_path,
                      lulc_stats |-> [of |-> <<0, "lulc_source_url">>,
                                      content |-> "base"]])]
             /\ pc' = "ok"
             /\ UNCHANGED <<exc, raisedAt>>
        ELSE /\ Raise(f)
             /\ UNCHANGED data
    /\ UNCHANGED <<slept, fetched, response_json, server_args, job_id, job_type, job_args,
                   result_path, status, posts, dirs, files, alignVars, opVars>>

\* the result of a scenario job: pixelcounts_under_parcel on the raster the
\* job wrote
ScenarioStats ==
    /\ pc = "stats"
    /\ \E f \in {"none", "pixelcounts"} :
        IF f = "none"
        THEN /\ data' = [result |-> JDict(
                     [lulc_path |-> result_path,
                      lulc_stats |-> [of |-> result_path,
                                      content |-> files[result_path]]])]
             /\ pc' = "ok"
             /\ UNCHANGED <<exc, raisedAt>>
        ELSE /\ Raise(f)
             /\ UNCHANGED data
    /\ UNCHANGED <<slept, fetched, response_json, server_args, job_id, job_type, job_args,
                   result_path, status, posts, dirs, files, alignVars, opVars>>

\* JOBTYPE_PARCEL_STATS: pixelcounts_under_parcel on the raster the job names
ParcelStats ==
    /\ pc = "try"
    /\ job_type = JOBTYPE_PARCEL_STATS
    /\ \E f \in {"none", "args", "pixelcounts"} :
        /\ (f = "args") <=> ~job_args.complete
        /\ IF f = "none"
           THEN /\ data' = [result |-> JDict(
                        [lulc_stats |-> [base |-> [of |-> <<0, "lulc_source_url">>,
                                                   content |-> "base"]]])]
                /\ pc' = "ok"
                /\ UNCHANGED <<exc, raisedAt>>
           ELSE /\ Raise(f)
                /\ UNCHANGED data
    /\ UNCHANGED <<slept, fetched, response_json, server_args, job_id, job_type, job_args,
                   result_path, status, posts, dirs, files, alignVars, opVars>>

\* JOBTYPE_INVEST: build the arguments, run the model, derive its results
InvestSteps == <<"args", "model_lookup", "prepare_workspace", "build_args",
                 "execute", "derive_results">>
Invest ==
    /\ pc = "try"
    /\ job_type = JOBTYPE_INVEST
    /\ \E f \in Steps(InvestSteps) \cup {"none"} :
        /\ (f = "args") <=> ~job_args.complete
        /\ (f = "model_lookup") <=>
              (job_args.complete /\ job_args.invest_model \notin INVEST_MODELS)
        /\ IF f = "none"
           THEN /\ data' = [result |-> JDict(
                        [invest_result |-> "model_result_path",
                         model |-> job_args.invest_model,
                         serviceshed |->
                            CASE job_args.invest_model = URBAN_COOLING ->
                                    "aoi_vector_path"
                              [] job_args.invest_model = URBAN_NATURE_ACCESS ->
                                    "admin_boundaries_vector_path"
                              [] OTHER -> ""])]
                /\ pc' = "ok"
                /\ UNCHANGED <<exc, raisedAt>>
           ELSE /\ Raise(f)
                /\ UNCHANGED data
    /\ UNCHANGED <<slept, fetched, response_json, server_args, job_id, job_type, job_args,
                   result_path, status, posts, dirs, files, alignVars, opVars>>

\* the else branch of the dispatch: any other job type raises ValueError
InvalidJobType ==
    /\ pc = "try"
    /\ job_type \notin ScenarioJobTypes \cup {JOBTYPE_PARCEL_STATS, JOBTYPE_INVEST}
    /\ Raise("invalid_job_type")
    /\ UNCHANGED <<slept, fetched, response_json, server_args, job_id, job_type, job_args,
                   result_path, status, data, posts, dirs, files, alignVars, opVars>>

\* the last statement of the try block
SetSuccess ==
    /\ pc = "ok"
    /\ status' = STATUS_SUCCESS
    /\ pc' = "finally"
    /\ UNCHANGED <<slept, fetched, response_json, server_args, job_id, job_type, job_args,
                   result_path, data, exc, raisedAt, posts, dirs, files,
                   alignVars, opVars>>

\* except Exception: the job is marked failed
Except ==
    /\ pc = "except"
    /\ status' = STATUS_FAILED
    /\ result_path' = NoPath
    /\ data' = FailureData(data)
    /\ exc' = "none"
    /\ pc' = "finally"
    /\ UNCHANGED <<slept, fetched, response_json, server_args, job_id, job_type, job_args,
                   raisedAt, posts, dirs, files, alignVars, opVars>>

\* finally: the payload is completed and posted to the job type's endpoint;
\* an exception in flight goes on, out of do_work, once the clause is over
Finally ==
    /\ pc = "finally"
    /\ IF status = UnboundStr \/ data = Unbound
       THEN /\ pc' = "crashed"
            /\ exc' = "UnboundLocalError"
            /\ UNCHANGED <<data, posts>>
       ELSE /\ data' = SetKey(SetKey(data, "server_attrs", server_args),
                              "status", status)
            /\ IF job_type \in DOMAIN ENDPOINTS
               THEN /\ posts' = Append(posts,
                          [job |-> fetched, endpoint |-> ENDPOINTS[job_type],
                           body |-> data'])
                    /\ pc' = IF exc = "none" THEN "poll" ELSE "crashed"
                    /\ UNCHANGED exc
               ELSE /\ pc' = "crashed"
                    /\ exc' = "KeyError"
                    /\ UNCHANGED posts
    /\ UNCHANGED <<slept, fetched, response_json, server_args, job_id, job_type, job_args,
                   result_path, status, raisedAt, dirs, files, alignVars, opVars>>


(* ------------------- the operations on small rasters ------------------- *)
\* an operation that is not being run
Idle == [pc |-> "idle"]
OpsIdle == tile = Idle /\ ras = Idle /\ cnt = Idle /\ rep = Idle

(* ------------------- _create_new_lulc: grid alignment ------------------ *)
\* Python's a % b: the result has the sign of the divisor b
PyMod(a, b) == IF b > 0 THEN a % b ELSE -((-a) % (-b))
Abs(a) == IF a < 0 THEN -a ELSE a

BufferBoundsNone(box, r) == box
\* geometry.buffer(r).bounds: the bounds grow by r on every side
BufferBounds(box, r) ==
    [minx |-> box.minx - r, miny |-> box.miny - r,
     maxx |-> box.maxx + r, maxy |-> box.maxy + r]

\* the four statements that snap the buffered bounds to the LULC grid g
\* (origin g.ox, g.oy; pixel size g.px, g.py)
AlignExtent(box, g) ==
    [minx |-> box.minx - Abs(PyMod(box.minx - g.ox, g.px)),
     miny |-> box.miny - Abs(PyMod(box.miny - g.oy, g.py)),
     maxx |-> box.maxx + (g.px - Abs(PyMod(box.maxx - g.ox, g.px))),
     maxy |-> box.maxy + (g.py - Abs(PyMod(box.maxy - g.oy, g.py)))]

\* the base raster's geotransform: a north-up grid, so the y pixel size is
\* negative
PixelSizes == {2, 3}
Origins == {0, 1}
Grids == [ox : Origins, oy : Origins, px : PixelSizes,
          py : {-p : p \in PixelSizes}]
\* bounds of non-empty parcels
ParcelBounds ==
    {b \in [minx : -MaxCoord..MaxCoord, miny : -MaxCoord..MaxCoord,
            maxx : -MaxCoord..MaxCoord, maxy : -MaxCoord..MaxCoord] :
        b.minx < b.maxx /\ b.miny < b.maxy}
NoBox == [minx |-> 0, miny |-> 0, maxx |-> 0, maxy |-> 0]

\* no raster is being created
AlignIdle ==
    /\ grid = [ox |-> 0, oy |-> 0, px |-> 2, py |-> -2]
    /\ parcel = NoBox
    /\ bbox = NoBox
    /\ aligned = NoBox
    /\ raster_bb = NoBox
    /\ apc = "idle"

\* _create_new_lulc is called on a parcel
InitAlign ==
    /\ InitLoop
    /\ OpsIdle
    /\ grid \in Grids
    /\ parcel \in ParcelBounds
    /\ bbox = NoBox
    /\ aligned = NoBox
    /\ raster_bb = NoBox
    /\ apc = "start"

\* the parcel's bounds are buffered by LARGEST_SERVICESHED
BufferParcel ==
    /\ apc = "start"
    /\ bbox' = BufferBounds(parcel, LARGEST_SERVICESHED)
    /\ apc' = "buffered"
    /\ UNCHANGED <<grid, parcel, aligned, raster_bb, loopVars, opVars>>

\* the buffered bounds are snapped to the grid
Align ==
    /\ apc = "buffered"
    /\ aligned' = AlignExtent(bbox, grid)
    /\ apc' = "aligned"
    /\ UNCHANGED <<grid, parcel, bbox, raster_bb, loopVars, opVars>>

\* ceil(a / b) for a >= 0 and b > 0
CeilDiv(a, b) == (a + b - 1) \div b

\* the bounding box of the raster that pygeoprocessing's warp_raster writes
\* for target_bb = box: the lower-left corner is kept, and the size is the
\* whole number of pixels that covers the box (at least one)
WarpBounds(box, g) ==
    LET xsize == CeilDiv(Abs(box.maxx - box.minx), Abs(g.px))
        ysize == CeilDiv(Abs(box.maxy - box.miny), Abs(g.py))
    IN [minx |-> box.minx, miny |-> box.miny,
        maxx |-> box.minx + Abs(g.px) * (IF xsize = 0 THEN 1 ELSE xsize),
        maxy |-> box.miny + Abs(g.py) * (IF ysize = 0 THEN 1 ELSE ysize)]

\* the base raster is warped into the aligned extent
Warp ==
    /\ apc = "aligned"
    /\ raster_bb' = WarpBounds(aligned, grid)
    /\ apc' = "written"
    /\ UNCHANGED <<grid, parcel, bbox, aligned, loopVars, opVars>>

(* ------------------- wallpaper_parcel: the tiling ---------------------- *)
\* s repeated n times, end to end
RECURSIVE Repeat(_, _)
Repeat(s, n) == IF n <= 0 THEN <<>> ELSE s \o Repeat(s, n - 1)

\* numpy.tile(A, (yr, xr)) of a two-dimensional array, kept as rows
NpTile(A, yr, xr) ==
    Repeat([i \in 1..Len(A) |-> Repeat(A[i], xr)], yr)

Min(a, b) == IF a < b THEN a ELSE b
\* the Python slice s[a:b] for 0 <= a: it stops at the end of s
Slice(s, a, b) == SubSeq(s, a + 1, Min(b, Len(s)))
\* A[y0:y1, x0:x1]
Slice2(A, y0, y1, x0, x1) ==
    LET rows == Slice(A, y0, y1)
    IN [i \in 1..Len(rows) |-> Slice(rows[i], x0, x1)]

\* where in the pattern a window starts: its absolute offset modulo the
\* pattern's size
PhaseLocal(off, dim) == 0
Phase(off, dim) == off % dim

\* repeats that cover the window alone, without its phase
WallpaperRepeatsNoPhase(phase, win, dim) == CeilDiv(win, dim)

\* wallpaper_x_repeats and wallpaper_y_repeats: how many times the pattern is
\* repeated along an axis for a window of win pixels starting at phase
WallpaperRepeats(phase, win, dim) == 1 + ((phase + win) \div dim)

\* wallpaper_tiled of the block loop, for the pattern wallpaper_array and the
\* window at (yoff, xoff) of size win_ysize x win_xsize
WallpaperTiled(wallpaper_array, yoff, xoff, win_ysize, win_xsize) ==
    LET shape0 == Len(wallpaper_array)
        shape1 == Len(wallpaper_array[1])
        wallpaper_x == Phase(xoff, shape1)
        wallpaper_y == Phase(yoff, shape0)
        wallpaper_x_repeats == WallpaperRepeats(wallpaper_x, win_xsize, shape1)
        wallpaper_y_repeats == WallpaperRepeats(wallpaper_y, win_ysize, shape0)
    IN Slice2(NpTile(wallpaper_array, wallpaper_y_repeats, wallpaper_x_repeats),
              wallpaper_y, wallpaper_y + win_ysize,
              wallpaper_x, wallpaper_x + win_xsize)

\* a pattern of H rows and W columns whose pixels are pairwise different
PatternArray(H, W) == [i \in 1..H |-> [j \in 1..W |-> (i - 1) * W + j]]

\* a window, and the place where it is cut into two adjacent blocks
Windows ==
    {w \in [yoff : 0..MaxOff, xoff : 0..MaxOff,
            win_ysize : 1..MaxWin, win_xsize : 1..MaxWin,
            axis : {"x", "y"}, cut : 1..MaxWin] :
        w.cut < (IF w.axis = "x" THEN w.win_xsize ELSE w.win_ysize)}

\* a raster is about to be tiled
InitTile ==
    /\ InitLoop /\ AlignIdle
    /\ ras = Idle /\ cnt = Idle /\ rep = Idle
    /\ \E H \in 1..MaxPattern, W \in 1..MaxPattern, w \in Windows :
          tile = [pc |-> "start", wallpaper_array |-> PatternArray(H, W),
                  window |-> w]

\* the window is read as one block
TileBlock ==
    /\ tile.pc = "start"
    /\ tile' = [pc |-> "one", wallpaper_array |-> tile.wallpaper_array,
                window |-> tile.window,
                whole |-> WallpaperTiled(tile.wallpaper_array,
                             tile.window.yoff, tile.window.xoff,
                             tile.window.win_ysize, tile.window.win_xsize)]
    /\ UNCHANGED <<loopVars, alignVars, ras, cnt, rep>>

\* the window is read as two adjacent blocks, each tiled with its own
\* offset and written at that offset
TileTwoBlocks ==
    /\ tile.pc = "one"
    /\ LET w == tile.window
           A == tile.wallpaper_array
           first == IF w.axis = "x"
                    THEN WallpaperTiled(A, w.yoff, w.xoff, w.win_ysize, w.cut)
                    ELSE WallpaperTiled(A, w.yoff, w.xoff, w.cut, w.win_xsize)
           second == IF w.axis = "x"
                     THEN WallpaperTiled(A, w.yoff, w.xoff + w.cut,
                                         w.win_ysize, w.win_xsize - w.cut)
                     ELSE WallpaperTiled(A, w.yoff + w.cut, w.xoff,
                                         w.win_ysize - w.cut, w.win_xsize)
       IN tile' = [pc |-> "two", wallpaper_array |-> A, window |-> w,
                   whole |-> tile.whole,
                   joined |-> IF w.axis = "x"
                              THEN [i \in 1..Len(first) |->
                                        first[i] \o second[i]]
                              ELSE first \o second]
    /\ UNCHANGED <<loopVars, alignVars, ras, cnt, rep>>

(* ------------- fill_parcel and wallpaper_parcel on a raster ------------ *)
\* the pixel values a base raster may hold: nodata and two class codes
Codes == {LULC_NODATA, 1, 2}
\* the classes a parcel may be filled with
FillClasses == {1, 2, 3}
Pixels == 1..MaxWidth
\* one row of the base LULC
BaseRows == [Pixels -> Codes]
\* the pixels a parcel touches (its all-touched rasterization)
ParcelMasks == (SUBSET Pixels) \ {{}}
\* the base LULC under the pattern's bounding box
PatternRows == UNION {[1..W -> Codes \ {LULC_NODATA}] : W \in 1..2}

\* the raster _create_new_lulc writes over base: a copy of the base pixels,
\* or nodata everywhere
CreateNewLulc(base, include_pixel_values) ==
    IF include_pixel_values THEN base
    ELSE [i \in DOMAIN base |-> LULC_NODATA]

\* pygeoprocessing's rasterize with ALL_TOUCHED=TRUE: burn is written on
\* every pixel the parcel touches, the others are left as they are
RasterizeValidOnly(array, touched, burn) ==
    [i \in DOMAIN array |->
        IF i \in touched /\ array[i] # LULC_NODATA THEN burn ELSE array[i]]
Rasterize(array, touched, burn) ==
    [i \in DOMAIN array |-> IF i \in touched THEN burn ELSE array[i]]

\* the raster fill_parcel writes
FillParcelOnNodata(base, touched, fill_lulc_class) ==
    Rasterize(CreateNewLulc(base, FALSE), touched, fill_lulc_class)
FillParcelRaster(base, touched, fill_lulc_class) ==
    Rasterize(CreateNewLulc(base, TRUE), touched, fill_lulc_class)

\* the blocks iterblocks yields: the whole row, or two blocks cut at cut
Blocks(cut) ==
    IF cut = 0 THEN <<[xoff |-> 0, win_xsize |-> MaxWidth]>>
    ELSE <<[xoff |-> 0, win_xsize |-> cut],
           [xoff |-> cut, win_xsize |-> MaxWidth - cut]>>

\* the target array of one block: the tile where the mask raster is 1, the
\* base pixel elsewhere
TargetArray(parcel_mask_array, wallpaper_tiled, base_array) ==
    [i \in DOMAIN base_array |->
        IF parcel_mask_array[i] = 1 THEN wallpaper_tiled[i] ELSE base_array[i]]

\* the raster wallpaper_parcel writes, block after block
WallpaperParcelRaster(base, touched, wallpaper_row, cut) ==
    LET parcel_mask == FillParcelRaster(base, touched, 1)
        blocks == Blocks(cut)
        Block(b) ==
            TargetArray(
                Slice(parcel_mask, b.xoff, b.xoff + b.win_xsize),
                WallpaperTiled(<<wallpaper_row>>, 0, b.xoff, 1, b.win_xsize)[1],
                Slice(base, b.xoff, b.xoff + b.win_xsize))
    IN IF Len(blocks) = 1 THEN Block(blocks[1])
       ELSE Block(blocks[1]) \o Block(blocks[2])

\* the sum of the pixels of array that are not nodata
RECURSIVE SumValid(_)
SumValid(array) ==
    IF array = <<>> THEN 0
    ELSE (IF Head(array) = LULC_NODATA THEN 0 ELSE Head(array))
            + SumValid(Tail(array))

\* a parcel over a base raster
InitRaster ==
    /\ InitLoop /\ AlignIdle
    /\ tile = Idle /\ cnt = Idle /\ rep = Idle
    /\ \E base \in BaseRows, touched \in ParcelMasks :
          ras = [pc |-> "start", base |-> base, touched |-> touched]

\* fill_parcel(parcel, fill_lulc_class, target)
FillRaster ==
    /\ ras.pc = "start"
    /\ \E c \in FillClasses :
          ras' = [pc |-> "filled", base |-> ras.base, touched |-> ras.touched,
                  fill_lulc_class |-> c,
                  out |-> FillParcelRaster(ras.base, ras.touched, c)]
    /\ UNCHANGED <<loopVars, alignVars, tile, cnt, rep>>

\* wallpaper_parcel(parcel, pattern, source, target)
WallpaperRaster ==
    /\ ras.pc = "start"
    /\ \E row \in PatternRows, cut \in 0..(MaxWidth - 1) :
          ras' = [pc |-> "wallpapered", base |-> ras.base,
                  touched |-> ras.touched, wallpaper_array |-> row,
                  out |-> WallpaperParcelRaster(ras.base, ras.touched, row, cut)]
    /\ UNCHANGED <<loopVars, alignVars, tile, cnt, rep>>

(* --------------------------- specifications ---------------------------- *)
Init == InitLoop /\ AlignIdle /\ OpsIdle

Next ==
    \/ Fetch
    \/ StartScenario
    \/ Crop
    \/ Fill
    \/ Wallpaper
    \/ ScenarioStats
    \/ ParcelStats
    \/ Invest
    \/ InvalidJobType
    \/ SetSuccess
    \/ Except
    \/ Finally

\* the polling loop of one worker
Spec == Init /\ [][Next]_vars

NextAlign ==
    \/ BufferParcel
    \/ Align
    \/ Warp

\* _create_new_lulc's extent arithmetic over all parcels and grids
SpecAlign == InitAlign /\ [][NextAlign]_vars


(* ------------------------------ properties ----------------------------- *)
\* number of result POSTs made for the j-th fetched job
PostsFor(j) == Cardinality({i \in 1..Len(posts) : posts[i].job = j})
\* the last POST belongs to the job being processed and reports a failure
FailureReported ==
    /\ Len(posts) > 0
    /\ posts[Len(posts)].job = fetched
    /\ PostsFor(fetched) = 1
    /\ "status" \in DOMAIN posts[Len(posts)].body
    /\ posts[Len(posts)].body.status = STATUS_FAILED

\* C1: every fetched job (a non-null response) is terminated by exactly one
\* result POST: never more than one, and exactly one once do_work is done
\* with the job, whether it went back to polling or stopped.
C1_ExactlyOnePostPerJob ==
    \A j \in 1..fetched :
        /\ PostsFor(j) <= 1
        /\ (j < fetched \/ pc \in {"poll", "crashed"}) => PostsFor(j) = 1

\* C2: a job whose job_type is not a recognized tag yields a failure payload
\* that is posted to the queue, and no exception leaves the polling loop.
C2_UnknownJobTypeReported ==
    (raisedAt = "invalid_job_type" /\ job_type \notin DOMAIN ENDPOINTS) =>
        /\ pc # "crashed"
        /\ pc = "poll" => FailureReported

\* the steps of the raster operations, of the statistics and of the models
OperationSteps ==
    Steps(FillSteps) \cup Steps(WallpaperSteps) \cup {"pixelcounts"}
        \cup (Steps(InvestSteps) \ {"args"})

\* C3: when a raster, statistics or model step raises, the exception is
\* caught at the job boundary (the except clause runs and no exception stays
\* in flight), a failure result is posted, and do_work is back at the queue
\* fetch: the failure never ends the polling loop.
C3_StepFailureReported ==
    raisedAt \in OperationSteps =>
        /\ pc \in {"except", "finally", "poll"}
        /\ pc = "finally" => (status = STATUS_FAILED /\ exc = "none")
        /\ pc = "poll" => FailureReported

\* a step failed, its failure was posted and the worker polls again
C3_Witness ==
    /\ raisedAt \in {"rasterize", "iterblocks", "pixelcounts", "execute"}
    /\ pc = "poll"
    /\ FailureReported

\* envelope r lacks a key that do_work reads for r's job type
RequiredKeyMissing(r) ==
    \/ r.missing \in {"job_type", "server_attrs", "job_id", "job_args"}
    \/ r.missing = "scenario_id" /\ r.job_type \in ScenarioJobTypes
    \/ /\ r.missing = "arg"
       /\ r.job_type \in ScenarioJobTypes \cup {JOBTYPE_PARCEL_STATS, JOBTYPE_INVEST}

\* C4: an envelope that lacks a required key is handled as a failed job: the
\* poller does not crash, and once it polls again the failure was posted.
C4_MalformedEnvelopeHandled ==
    (response_json # Unbound /\ RequiredKeyMissing(response_json)) =>
        /\ pc # "crashed"
        /\ pc = "poll" => FailureReported

\* C5: when a job's result is posted, no working directory that the job's
\* operations created still exists.
C5_WorkingDirsRemovedAtPost ==
    \A d \in dirs : PostsFor(d.job) = 0

\* C6: every posted payload has the keys result, server_attrs and status,
\* and its status is 'success' or 'failed'.
C6_UniformPayload ==
    \A i \in 1..Len(posts) :
        /\ {"result", "server_attrs", "status"} \subseteq DOMAIN posts[i].body
        /\ posts[i].body.status \in {STATUS_SUCCESS, STATUS_FAILED}

\* payloads of both outcomes and of two job types were posted
C6_Witness ==
    \E i, j \in 1..Len(posts) :
        /\ posts[i].body.status = STATUS_SUCCESS
        /\ posts[j].body.status = STATUS_FAILED
        /\ posts[i].endpoint # posts[j].endpoint

\* C7: a posted payload with status 'failed' has the fixed failure marker as
\* its result, and so carries no lulc_path, lulc_stats or model output.
C7_FailedPayloadHasOnlyMarker ==
    \A i \in 1..Len(posts) :
        posts[i].body.status = STATUS_FAILED =>
            posts[i].body.result = JStr(STATUS_FAILED)

\* a job failed in its statistics, after its raster was written and after an
\* earlier job had left a complete result in data
C7_Witness ==
    /\ Len(posts) = 2
    /\ posts[1].body.status = STATUS_SUCCESS
    /\ posts[2].body.status = STATUS_FAILED
    /\ raisedAt = "pixelcounts"
    /\ job_type \in ScenarioJobTypes
    /\ files[ResultPath(1, job_type)] \in {"base", "filled", "wallpapered"}

\* C8: do_work issues a queue fetch only when every job it fetched before has
\* had its result posted, so at most one job is ever fetched and unposted.
C8_OneJobAtATime ==
    [][/\ (fetched' # fetched \/ (slept' /\ ~slept))
            => \A j \in 1..fetched : PostsFor(j) = 1
       /\ Cardinality({j \in 1..fetched' : PostsFor(j)' = 0}) <= 1]_vars

\* a second job was fetched after the first one's result was posted
C8_Witness ==
    /\ fetched = 2
    /\ pc = "try"
    /\ PostsFor(1) = 1

\* all four edges of box lie on pixel boundaries of grid g
OnGrid(box, g) ==
    /\ (box.minx - g.ox) % g.px = 0
    /\ (box.maxx - g.ox) % g.px = 0
    /\ (box.miny - g.oy) % Abs(g.py) = 0
    /\ (box.maxy - g.oy) % Abs(g.py) = 0

\* C9: the aligned extent contains the requested (buffered) bounding box on
\* all four sides.
C9_AlignedContainsRequested ==
    apc = "aligned" =>
        /\ aligned.minx <= bbox.minx
        /\ aligned.miny <= bbox.miny
        /\ aligned.maxx >= bbox.maxx
        /\ aligned.maxy >= bbox.maxy

\* C10: aligning an extent whose four edges already lie on pixel boundaries
\* returns that extent.
C10_AlignmentIdempotent ==
    (apc = "aligned" /\ OnGrid(bbox, grid)) => aligned = bbox


\* box a contains box b
Contains(a, b) ==
    /\ a.minx <= b.minx /\ a.miny <= b.miny
    /\ a.maxx >= b.maxx /\ a.maxy >= b.maxy

\* C11: the aligned box is the smallest box that contains the raw box and has
\* all four edges on pixel boundaries: no edge is moved by a whole pixel or
\* more, so an edge already on a boundary stays where it is.
C11_SmallestAlignedBox ==
    apc \in {"aligned", "written"} =>
        /\ OnGrid(aligned, grid)
        /\ Contains(aligned, bbox)
        /\ bbox.minx - aligned.minx < grid.px
        /\ aligned.maxx - bbox.maxx < grid.px
        /\ bbox.miny - aligned.miny < Abs(grid.py)
        /\ aligned.maxy - bbox.maxy < Abs(grid.py)

\* C12: the bounding box of the raster that _create_new_lulc wrote contains
\* the whole input parcel.
C12_RasterContainsParcel ==
    apc = "written" => Contains(raster_bb, parcel)

\* a raster was written whose top edge lies below the buffered extent's
C12_Witness ==
    /\ apc = "written"
    /\ raster_bb.maxy < bbox.maxy
    /\ Contains(raster_bb, parcel)


NextTile ==
    \/ TileBlock
    \/ TileTwoBlocks

\* the wallpaper tiling over all patterns, windows and cuts
SpecTile == InitTile /\ [][NextTile]_vars

\* C13: tiling a window in one pass gives the same array as tiling two
\* adjacent sub-windows, each with its own absolute offset, and joining them.
C13_TilingBlockInvariant ==
    tile.pc = "two" => tile.joined = tile.whole

\* a window was cut at a place that is not a multiple of the pattern's size
C13_Witness ==
    /\ tile.pc = "two"
    /\ tile.window.axis = "x"
    /\ tile.window.cut % Len(tile.wallpaper_array[1]) # 0
    /\ tile.window.xoff % Len(tile.wallpaper_array[1]) # 0
    /\ tile.joined = tile.whole


NextRaster ==
    \/ FillRaster
    \/ WallpaperRaster

\* fill_parcel and wallpaper_parcel over all small base rasters and parcels
SpecRaster == InitRaster /\ [][NextRaster]_vars

\* C14: in the raster wallpaper_parcel writes, every pixel outside the
\* parcel's footprint equals the base pixel at the same position, and every
\* pixel inside it holds a value of the pattern.
C14_WallpaperOnlyUnderParcel ==
    ras.pc = "wallpapered" =>
        \A i \in Pixels :
            IF i \in ras.touched
            THEN \E j \in DOMAIN ras.wallpaper_array :
                    ras.out[i] = ras.wallpaper_array[j]
            ELSE ras.out[i] = ras.base[i]

\* C15: after fill_parcel the number of output pixels equal to the fill class
\* is the number of pixels the parcel touches.
C15_FillConservation ==
    ras.pc = "filled" =>
        Cardinality({i \in Pixels : ras.out[i] = ras.fill_lulc_class})
            = Cardinality(ras.touched)

C17_FillOnNodata ==
    ras.pc = "filled" =>
        /\ \A i \in Pixels \ ras.touched : ras.out[i] = LULC_NODATA
        /\ SumValid(ras.out) = ras.fill_lulc_class * Cardinality(ras.touched)

\* C18, as claimed: a pixel inside the parcel whose base value is nodata is
\* still nodata after fill_parcel.
C18_NodataKeptUnderParcel ==
    ras.pc = "filled" =>
        \A i \in ras.touched :
            ras.base[i] = LULC_NODATA => ras.out[i] = LULC_NODATA

\* C18, amended: after fill_parcel every pixel inside the parcel holds the
\* fill class, also where the base value is nodata.
C18_FillCoversParcel ==
    ras.pc = "filled" =>
        \A i \in ras.touched : ras.out[i] = ras.fill_lulc_class

\* a parcel was filled over a nodata pixel of the base raster
C18_Witness ==
    /\ ras.pc = "filled"
    /\ \E i \in ras.touched :
          ras.base[i] = LULC_NODATA /\ ras.out[i] = ras.fill_lulc_class

(* ----------------------- pixelcounts_under_parcel ----------------------- *)

\* array[parcel_mask == 1] taken over every pixel, masked or not
UnderAll(array, parcel_mask) == array

\* array[parcel_mask == 1]: the pixels of array where the mask is 1, in order
RECURSIVE Under(_, _)
Under(array, parcel_mask) ==
    IF array = <<>> THEN <<>>
    ELSE (IF Head(parcel_mask) = 1 THEN <<Head(array)>> ELSE <<>>)
            \o Under(Tail(array), Tail(parcel_mask))

\* the elements of a set of numbers in increasing order
RECURSIVE SortSet(_)
SortSet(S) ==
    IF S = {} THEN <<>>
    ELSE LET m == CHOOSE x \in S : \A y \in S : x <= y
         IN  <<m>> \o SortSet(S \ {m})

\* numpy.unique(flat, return_counts=True): the sorted distinct values and,
\* for each, how many times it occurs
NpUnique(flat) ==
    LET values == SortSet({flat[i] : i \in DOMAIN flat})
    IN  [values |-> values,
         counts |-> [i \in DOMAIN values |->
                        Cardinality({j \in DOMAIN flat : flat[j] = values[i]})]]

\* the loop return_values[lulc_code] = pixel_count over zip(values, counts)
RECURSIVE ReturnValues(_, _)
ReturnValues(values, counts) ==
    IF values = <<>> \/ counts = <<>> THEN <<>>
    ELSE LET n == Min(Len(values), Len(counts))
         IN  (values[n] :> counts[n])
                @@ ReturnValues(SubSeq(values, 1, n - 1), SubSeq(counts, 1, n - 1))

\* the mask band: filled with 0, then the parcel burnt in with 1 (all touched)
ParcelMask(array, touched) ==
    Rasterize([i \in DOMAIN array |-> 0], touched, 1)

PixelcountsUnderParcel(array, touched) ==
    LET parcel_mask == ParcelMask(array, touched)
        u == NpUnique(Under(array, parcel_mask))
    IN  ReturnValues(u.values, u.counts)

\* a parcel over a window of the source raster
InitCount ==
    /\ InitLoop /\ AlignIdle
    /\ tile = Idle /\ ras = Idle /\ rep = Idle
    /\ \E array \in BaseRows, touched \in ParcelMasks :
          cnt = [pc |-> "start", array |-> array, touched |-> touched]

\* pixelcounts_under_parcel(parcel, source_raster_path)
PixelCounts ==
    /\ cnt.pc = "start"
    /\ cnt' = [pc |-> "counted", array |-> cnt.array, touched |-> cnt.touched,
               parcel_mask |-> ParcelMask(cnt.array, cnt.touched),
               return_values |-> PixelcountsUnderParcel(cnt.array, cnt.touched)]
    /\ UNCHANGED <<loopVars, alignVars, tile, ras, rep>>

NextCount ==
    \/ PixelCounts

\* pixelcounts_under_parcel over all small windows and parcels
SpecCount == InitCount /\ [][NextCount]_vars

\* the sum of the counts of a result over a set of its keys
RECURSIVE SumCounts(_, _)
SumCounts(d, keys) ==
    IF keys = {} THEN 0
    ELSE LET k == CHOOSE x \in keys : TRUE
         IN  d[k] + SumCounts(d, keys \ {k})

MaxErr == 3

\* polygons as WKT text
Wkts ==
    { "POLYGON ((0 0, 0 1, 1 1, 0 0))",
      "POLYGON ((2 2, 2 3, 3 3, 2 2))",
      "POLYGON ((4 4, 4 5, 5 5, 4 4))",
      "POLYGON ((6 6, 6 7, 7 7, 6 6))",
      "POLYGON ((8 8, 8 9, 9 9, 8 8))" }

\* _reproject_to_nlud that also fails when the transformation returns an error
ReprojectToNludStrict(parcel_wkt_epsg3857, err_code, exported) ==
    IF err_code # 0 \/ exported = parcel_wkt_epsg3857
    THEN [warned |-> err_code # 0, raised |-> TRUE, exc |-> "AssertionError"]
    ELSE [warned |-> FALSE, raised |-> FALSE, parcel_geom |-> exported]

\* _reproject_to_nlud: err_code is what Transform returned and exported is
\* the WKT of the geometry after it
ReprojectToNlud(parcel_wkt_epsg3857, err_code, exported) ==
    LET warned == err_code # 0
    IN  IF exported = parcel_wkt_epsg3857
        THEN [warned |-> warned, raised |-> TRUE, exc |-> "AssertionError"]
        ELSE [warned |-> warned, raised |-> FALSE, parcel_geom |-> exported]

\* a parcel, and what the transformation does to it
InitReproject ==
    /\ InitLoop /\ AlignIdle
    /\ tile = Idle /\ ras = Idle /\ cnt = Idle
    /\ \E wkt \in Wkts, err_code \in 0..MaxErr, exported \in Wkts :
          rep = [pc |-> "start", parcel_wkt_epsg3857 |-> wkt,
                 err_code |-> err_code, exported |-> exported]

\* _reproject_to_nlud(parcel_wkt_epsg3857)
Reproject ==
    /\ rep.pc = "start"
    /\ rep.err_code <= MaxErr
    /\ rep' = [pc |-> "done", parcel_wkt_epsg3857 |-> rep.parcel_wkt_epsg3857,
               err_code |-> rep.err_code, exported |-> rep.exported,
               result |-> ReprojectToNlud(rep.parcel_wkt_epsg3857,
                                          rep.err_code, rep.exported)]
    /\ UNCHANGED <<loopVars, alignVars, tile, ras, cnt>>

NextReproject ==
    \/ Reproject

\* _reproject_to_nlud over all small parcels and transformation outcomes
SpecReproject == InitReproject /\ [][NextReproject]_vars

C21_TileIsPeriodicPattern ==
    tile.pc \in {"one", "two"} =>
        LET A == tile.wallpaper_array
            w == tile.window
            H == Len(A)
            W == Len(A[1])
            wallpaper_y == Phase(w.yoff, H)
            wallpaper_x == Phase(w.xoff, W)
            tiled == NpTile(A, WallpaperRepeats(wallpaper_y, w.win_ysize, H),
                               WallpaperRepeats(wallpaper_x, w.win_xsize, W))
        IN  /\ Len(tile.whole) = w.win_ysize
            /\ \A i \in 0..(w.win_ysize - 1) :
                  /\ Len(tile.whole[i + 1]) = w.win_xsize
                  /\ \A j \in 0..(w.win_xsize - 1) :
                        tile.whole[i + 1][j + 1]
                            = A[((w.yoff + i) % H) + 1][((w.xoff + j) % W) + 1]
            /\ Len(tiled) >= wallpaper_y + w.win_ysize
            /\ \A i \in 1..Len(tiled) : Len(tiled[i]) >= wallpaper_x + w.win_xsize

\* a window that starts inside the pattern and runs over its edge on both
\* axes was tiled
C21_Witness ==
    /\ tile.pc = "one"
    /\ Len(tile.wallpaper_array) > 1
    /\ Len(tile.wallpaper_array[1]) > 1
    /\ Phase(tile.window.yoff, Len(tile.wallpaper_array)) # 0
    /\ Phase(tile.window.xoff, Len(tile.wallpaper_array[1])) # 0
    /\ Phase(tile.window.yoff, Len(tile.wallpaper_array)) + tile.window.win_ysize
          > Len(tile.wallpaper_array)
    /\ Phase(tile.window.xoff, Len(tile.wallpaper_array[1])) + tile.window.win_xsize
          > Len(tile.wallpaper_array[1])
    /\ Len(tile.whole) = tile.window.win_ysize

(* ------------------------------ the dispatch ---------------------------- *)

\* C22: a job whose type is one of the six tags of ENDPOINTS is dispatched to
\* its operations: it is never failed with the invalid-job-type error, which
\* only tags outside ENDPOINTS get, and when no operation raised it is
\* reported with status success.
C22_RecognizedTagsDispatched ==
    job_type \in DOMAIN ENDPOINTS =>
        /\ raisedAt # "invalid_job_type"
        /\ \A i \in 1..Len(posts) :
              (posts[i].job = fetched /\ raisedAt = "none")
                  => posts[i].body.status = STATUS_SUCCESS

(* ------------------- the statistics of a scenario job ------------------- *)

\* what the raster operation of a scenario job type leaves in its target
\* once it has written it completely
OutputOf(jt) ==
    CASE jt = JOBTYPE_CROP -> "base"
      [] jt = JOBTYPE_FILL -> "filled"
      [] jt = JOBTYPE_WALLPAPER -> "wallpapered"

\* the successful result of the scenario job being processed holds the
\* statistics of that job's own raster, completely written
OwnRasterStats ==
    \A i \in 1..Len(posts) :
        (/\ posts[i].job = fetched
         /\ job_type \in ScenarioJobTypes
         /\ posts[i].body.status = STATUS_SUCCESS) =>
            LET r == posts[i].body.result.dict IN
            /\ r.lulc_path = ResultPath(server_args["scenario_id"], job_type)
            /\ r.lulc_stats.of = r.lulc_path
            /\ r.lulc_stats.content = OutputOf(job_type)

\* the step from the raster operation to the statistics wrote the job's own
\* raster with the operation of its job type, and no other raster
OneRasterOperation ==
    (pc = "raster" /\ pc' = "stats") =>
        /\ files'[result_path] = OutputOf(job_type)
        /\ \A p \in DOMAIN files : p # result_path => files'[p] = files[p]

\* C23: for every crop, fill or wallpaper job that succeeds, exactly one
\* raster operation runs, the one of the job's type, and the lulc_stats of the
\* result are computed from the job's own output raster after it was written
\* completely, never from the base raster or from a raster half written.
C23_StatsFromOwnRaster ==
    []OwnRasterStats /\ [][OneRasterOperation]_vars

\* a fill job that came after another job was posted as a success with the
\* statistics of the filled raster
C23_Witness ==
    /\ pc = "poll"
    /\ fetched = 2
    /\ job_type = JOBTYPE_FILL
    /\ Len(posts) = 2
    /\ posts[2].job = 2
    /\ posts[2].body.status = STATUS_SUCCESS
    /\ posts[2].body.result.dict.lulc_stats.content = "filled"
    /\ posts[2].body.result.dict.lulc_stats.of = ResultPath(1, JOBTYPE_FILL)

====
